---------------------------- MODULE Spec2Model ----------------------------
(***************************************************************************)
(* A model of the yulid crate: the 16-byte Ulid value, its constructors    *)
(* and accessors (src/src/lib.rs) and the Crockford base32 codec           *)
(* (src/src/parser.rs).                                                    *)
(*                                                                         *)
(* Representation.  A u8 is a number in 0..255.  A byte buffer, a Ulid     *)
(* and a text (the bytes of a &str) are sequences of u8.  TLC's integers   *)
(* are 32 bits wide, so an integer of the program wider than 16 bits is a  *)
(* word: a sequence of 16-bit limbs, least significant limb first, the     *)
(* i-th limb having weight 2^(16*(i-1)).  A u16 has 1 limb, a u32 2, a     *)
(* u64 or i64 (two's complement) 4, a u128 8.                              *)
(***************************************************************************)
EXTENDS Integers, Sequences, FiniteSets, TLC

(***************************************************************************)
(* Bit arithmetic on naturals below 2^16.                                  *)
(***************************************************************************)
Pow2 == <<1, 2, 4, 8, 16, 32, 64, 128, 256, 512, 1024, 2048, 4096, 8192,
          16384, 32768, 65536>>

\* 2^n for n in 0..16
TwoTo(n) == Pow2[n + 1]

\* x & y
RECURSIVE BitAnd(_, _)
BitAnd(x, y) ==
  IF x = 0 \/ y = 0 THEN 0
  ELSE (x % 2) * (y % 2) + 2 * BitAnd(x \div 2, y \div 2)

\* x | y
BitOr(x, y) == x + y - BitAnd(x, y)

\* x << n on a u8: the bits shifted past bit 7 are lost
Shl8(x, n) == (x * TwoTo(n)) % 256

\* x >> n on an unsigned value
Shr(x, n) == x \div TwoTo(n)

MinOf(a, b) == IF a < b THEN a ELSE b

\* The least element of a non-empty set of numbers
Least(S) == CHOOSE i \in S : \A j \in S : i <= j

(***************************************************************************)
(* Words: the wide integers.                                               *)
(***************************************************************************)
WZero(n) == [i \in 1..n |-> 0]

\* u8 -> uN (u32::from, u16::from)
WFromU8(b, n) == [i \in 1..n |-> IF i = 1 THEN b ELSE 0]

\* The limb of w at position i, zero outside the word
WLimb(w, i) == IF i >= 1 /\ i <= Len(w) THEN w[i] ELSE 0

\* w >> n (logical), n < 16 * Len(w)
WShr(w, n) ==
  LET q == n \div 16
      r == n % 16
  IN  [i \in 1..Len(w) |->
         (WLimb(w, i + q) \div TwoTo(r))
         + (WLimb(w, i + q + 1) % TwoTo(r)) * TwoTo(16 - r)]

\* w << n, truncated to the width of w
WShl(w, n) ==
  LET q == n \div 16
      r == n % 16
  IN  [i \in 1..Len(w) |->
         ((WLimb(w, i - q) * TwoTo(r)) % 65536)
         + (WLimb(w, i - q - 1) \div TwoTo(16 - r))]

\* w | v on words of one width
WOr(w, v) == [i \in 1..Len(w) |-> BitOr(w[i], v[i])]

\* w & v on words of one width
WAnd(w, v) == [i \in 1..Len(w) |-> BitAnd(w[i], v[i])]

\* `w as u8`: the low 8 bits
WAsU8(w) == w[1] % 256

\* The byte of w of weight 2^(8*j), j = 0 the least significant
WByte(w, j) == Shr(WLimb(w, (j \div 2) + 1), 8 * (j % 2)) % 256

(***************************************************************************)
(* Result values.                                                          *)
(***************************************************************************)
Ok(v) == [tag |-> "Ok", val |-> v]

Err(e) == [tag |-> "Err", err |-> e]

IsOk(r) == r.tag = "Ok"

IsErr(r) == r.tag = "Err"

\* A panic: Result::unwrap on an Err
Panic == [tag |-> "Panic"]

\* ParseError::InvalidCharacter { found, index }
InvalidCharacter(c, i) == [type |-> "InvalidCharacter", found |-> c, index |-> i]

\* ParseError::InvalidLength { found }
InvalidLength(n) == [type |-> "InvalidLength", found |-> n]

\* BytesError::new(expected, found)
BytesError_new(e, f) == [expected |-> e, found |-> f]

(***************************************************************************)
(* parser.rs: the base32 codec.  A character is its byte.                  *)
(***************************************************************************)
\* b"0123456789ABCDEFGHJKMNPQRSTVWXYZ"
CROCKFORD ==
  <<48, 49, 50, 51, 52, 53, 54, 55, 56, 57,
    65, 66, 67, 68, 69, 70, 71, 72, 74, 75, 77, 78,
    80, 81, 82, 83, 84, 86, 87, 88, 89, 90>>

\* CROCKFORD_LOWER with the letter i kept: b"0123456789abcdefghijkmnpqrstvwxy"
CROCKFORD_LOWER_i ==
  <<48, 49, 50, 51, 52, 53, 54, 55, 56, 57,
    97, 98, 99, 100, 101, 102, 103, 104, 105, 106, 107, 109,
    110, 112, 113, 114, 115, 116, 118, 119, 120, 121>>

\* b"0123456789abcdefghjkmnpqrstvwxyz"
CROCKFORD_LOWER ==
  <<48, 49, 50, 51, 52, 53, 54, 55, 56, 57,
    97, 98, 99, 100, 101, 102, 103, 104, 106, 107, 109, 110,
    112, 113, 114, 115, 116, 118, 119, 120, 121, 122>>

\* CROCKFORD_INV without the aliases: I, L and O have no value
CROCKFORD_INV_strict ==
  <<0, 1, 2, 3, 4, 5, 6, 7, 8, 9, -1, -1, -1, -1, -1, -1, -1,
    10, 11, 12, 13, 14, 15, 16, 17, -1, 18, 19, -1, 20, 21, -1,
    22, 23, 24, 25, 26, -1, 27, 28, 29, 30, 31>>

\* The 43 entries for the bytes '0'..'Z'
CROCKFORD_INV ==
  <<0, 1, 2, 3, 4, 5, 6, 7, 8, 9, -1, -1, -1, -1, -1, -1, -1,
    10, 11, 12, 13, 14, 15, 16, 17, 1, 18, 19, 1, 20, 21, 0,
    22, 23, 24, 25, 26, -1, 27, 28, 29, 30, 31>>

\* The alphabet of RFC 4648 base32, b"ABCDEFGHIJKLMNOPQRSTUVWXYZ234567", in
\* upper and in lower case
Alphabet_rfc(casing) ==
  [i \in 1..32 |-> IF i > 26 THEN i + 23
                   ELSE IF casing = "Upper" THEN i + 64 ELSE i + 96]

\* match casing { Upper => CROCKFORD, Lower => CROCKFORD_LOWER }
Alphabet(casing) == IF casing = "Upper" THEN CROCKFORD ELSE CROCKFORD_LOWER

\* The k-th (k >= 0) chunk of at most n elements of data, as slice::chunks
Chunk(data, n, k) == SubSeq(data, n * k + 1, MinOf(n * k + n, Len(data)))

\* The number of chunks of at most n elements of data
NumChunks(data, n) == (Len(data) + n - 1) \div n

\* A chunk copied into a zeroed buffer of n elements
ZeroPad(chunk, n) == [i \in 1..n |-> IF i <= Len(chunk) THEN chunk[i] ELSE 0]

\* The eight pushes of one 5-byte group (buf is 1-based: buf[1] is buf[0])
EncodeChunk(alphabet, buf) ==
  << alphabet[Shr(BitAnd(buf[1], 248), 3) + 1],
     alphabet[BitOr(Shl8(BitAnd(buf[1], 7), 2), Shr(BitAnd(buf[2], 192), 6)) + 1],
     alphabet[Shr(BitAnd(buf[2], 62), 1) + 1],
     alphabet[BitOr(Shl8(BitAnd(buf[2], 1), 4), Shr(BitAnd(buf[3], 240), 4)) + 1],
     alphabet[BitOr(Shl8(BitAnd(buf[3], 15), 1), Shr(buf[4], 7)) + 1],
     alphabet[Shr(BitAnd(buf[4], 124), 2) + 1],
     alphabet[BitOr(Shl8(BitAnd(buf[4], 3), 3), Shr(BitAnd(buf[5], 224), 5)) + 1],
     alphabet[BitAnd(buf[5], 31) + 1] >>

\* The loop over data.chunks(5), from chunk k on
RECURSIVE EncodeLoop(_, _, _, _)
EncodeLoop(alphabet, data, k, ret) ==
  IF k >= NumChunks(data, 5) THEN ret
  ELSE EncodeLoop(alphabet, data, k + 1,
                  ret \o EncodeChunk(alphabet, ZeroPad(Chunk(data, 5, k), 5)))

\* NumExtra with the division rounded up
NumExtra_ceil(len) == 8 - ((len % 5) * 8 + 4 + 4) \div 5

\* num_extra = 8 - (data.len() % 5 * 8 + 4) / 5
NumExtra(len) == 8 - ((len % 5) * 8 + 4) \div 5

\* encode without the truncation of the last group
encode_whole(casing, data) == EncodeLoop(Alphabet(casing), data, 0, <<>>)

encode(casing, data) ==
  LET ret == EncodeLoop(Alphabet(casing), data, 0, <<>>)
  IN  IF Len(data) % 5 # 0
      THEN SubSeq(ret, 1, Len(ret) - NumExtra(Len(data)))
      ELSE ret

\* u8::is_ascii
is_ascii(c) == c < 128

\* to_ascii_uppercase left out
to_ascii_uppercase_id(c) == c

\* u8::to_ascii_uppercase
to_ascii_uppercase(c) == IF c >= 97 /\ c <= 122 THEN c - 32 ELSE c

\* u8::wrapping_sub
wrapping_sub(a, b) == (a - b + 256) % 256

\* InvGet with '=' given the value 0, as a padding byte would be
InvGet_pad(c) ==
  LET idx == wrapping_sub(to_ascii_uppercase(c), 48)
  IN  IF c = 61 THEN <<0>>
      ELSE IF idx < Len(CROCKFORD_INV) THEN <<CROCKFORD_INV[idx + 1]>> ELSE <<>>

\* CROCKFORD_INV.get(c.to_ascii_uppercase().wrapping_sub(b'0') as usize):
\* Some(entry) as <<entry>>, None (past the end of the table) as << >>
InvGet(c) ==
  LET idx == wrapping_sub(to_ascii_uppercase(c), 48)
  IN  IF idx < Len(CROCKFORD_INV) THEN <<CROCKFORD_INV[idx + 1]>> ELSE <<>>

\* Whether the byte c takes one of the two returns of the inner loop
Rejected(c) ==
  \/ ~is_ascii(c)
  \/ LET v == InvGet(c) IN v = <<>> \/ v = <<-1>>

\* DecodeChunk with the second symbol of the first byte not shifted down
DecodeChunk_low(buf) ==
  << BitOr(Shl8(buf[1], 3), buf[2]),
     BitOr(BitOr(Shl8(buf[2], 6), Shl8(buf[3], 1)), Shr(buf[4], 4)),
     BitOr(Shl8(buf[4], 4), Shr(buf[5], 1)),
     BitOr(BitOr(Shl8(buf[5], 7), Shl8(buf[6], 2)), Shr(buf[7], 3)),
     BitOr(Shl8(buf[7], 5), buf[8]) >>

\* DecodeChunk with the fourth byte's middle symbol shifted by 3, not 2
DecodeChunk_shift(buf) ==
  << BitOr(Shl8(buf[1], 3), Shr(buf[2], 2)),
     BitOr(BitOr(Shl8(buf[2], 6), Shl8(buf[3], 1)), Shr(buf[4], 4)),
     BitOr(Shl8(buf[4], 4), Shr(buf[5], 1)),
     BitOr(BitOr(Shl8(buf[5], 7), Shl8(buf[6], 3)), Shr(buf[7], 3)),
     BitOr(Shl8(buf[7], 5), buf[8]) >>

\* The five pushes of one 8-symbol group
DecodeChunk(buf) ==
  << BitOr(Shl8(buf[1], 3), Shr(buf[2], 2)),
     BitOr(BitOr(Shl8(buf[2], 6), Shl8(buf[3], 1)), Shr(buf[4], 4)),
     BitOr(Shl8(buf[4], 4), Shr(buf[5], 1)),
     BitOr(BitOr(Shl8(buf[5], 7), Shl8(buf[6], 2)), Shr(buf[7], 3)),
     BitOr(Shl8(buf[7], 5), buf[8]) >>

\* The loop `for i in 1..=min(6, data.len())` that counts the padding
RECURSIVE UnpaddedLoop(_, _, _)
UnpaddedLoop(data, i, n) ==
  IF i > MinOf(6, Len(data)) THEN n
  ELSE IF data[Len(data) - i + 1] # 61 THEN n
  ELSE UnpaddedLoop(data, i + 1, n - 1)

\* Vec::truncate
Truncate(v, n) == IF n < Len(v) THEN SubSeq(v, 1, n) ELSE v

\* The loop over data.chunks(8), from chunk k on
RECURSIVE DecodeLoop(_, _, _, _)
DecodeLoop(data, k, ret, output_length) ==
  IF k >= NumChunks(data, 8) THEN Ok(Truncate(ret, output_length))
  ELSE LET chunk == Chunk(data, 8, k)
           bad == {i \in 1..Len(chunk) : Rejected(chunk[i])}
       IN  IF bad # {}
           THEN Err(InvalidCharacter(chunk[Least(bad)], Least(bad) - 1))
           ELSE DecodeLoop(data, k + 1,
                  ret \o DecodeChunk([i \in 1..8 |->
                           IF i <= Len(chunk) THEN InvGet(chunk[i])[1] ELSE 0]),
                  output_length)

decode(data) ==
  LET unpadded_data_length == UnpaddedLoop(data, 1, Len(data))
      output_length == (unpadded_data_length * 5) \div 8
  IN  DecodeLoop(data, 0, <<>>, output_length)

(***************************************************************************)
(* byteorder's BigEndian, as lib.rs calls it.                              *)
(***************************************************************************)
\* 0xFFFF_FFFF_FFFF as a u64
MASK48 == <<65535, 65535, 65535, 0>>

\* u64::MAX
ONES64 == <<65535, 65535, 65535, 65535>>

\* BE_write_uint writing the least significant byte first
BE_write_uint_le(buf, n, nbytes) ==
  [i \in 1..Len(buf) |-> IF i <= nbytes THEN WByte(n, i - 1) ELSE buf[i]]

\* BigEndian::write_uint(buf, n, nbytes): the nbytes low bytes of n, the most
\* significant first, over buf[0..nbytes]
BE_write_uint(buf, n, nbytes) ==
  [i \in 1..Len(buf) |-> IF i <= nbytes THEN WByte(n, nbytes - i) ELSE buf[i]]

\* BE_write_i48 writing the six high bytes of the eight
BE_write_i48_high(buf, n) == BE_write_uint(buf, WShr(n, 16), 6)

\* BigEndian::write_i48(buf, n) = write_u48(buf, n as u64 & 0xFFFF_FFFF_FFFF)
BE_write_i48(buf, n) == BE_write_uint(buf, WAnd(n, MASK48), 6)

\* BigEndian::read_uint(buf, nbytes) -> u64
BE_read_uint(buf, nbytes) ==
  LET byte(j) == IF j < nbytes THEN buf[nbytes - j] ELSE 0
  IN  [i \in 1..4 |-> byte(2 * (i - 1)) + 256 * byte(2 * (i - 1) + 1)]

\* i64 >> n (arithmetic)
WSar(w, n) ==
  IF w[Len(w)] >= 32768
  THEN WOr(WShr(w, n), WShl(ONES64, 64 - n))
  ELSE WShr(w, n)

\* extend_sign left out: the 48 bits read as unsigned
extend_sign_none(val, nbytes) == val

\* extend_sign(val, nbytes) = ((val << shift) as i64) >> shift,
\* shift = (8 - nbytes) * 8
extend_sign(val, nbytes) ==
  LET shift == (8 - nbytes) * 8
  IN  WSar(WShl(val, shift), shift)

\* BigEndian::read_i48(buf) = read_int(buf, 6)
BE_read_i48(buf) == extend_sign(BE_read_uint(buf, 6), 6)

\* BE_write_u128 writing the least significant byte first
BE_write_u128_le(buf, n) == [i \in 1..Len(buf) |-> IF i <= 16 THEN WByte(n, i - 1) ELSE buf[i]]

\* BigEndian::write_u128(buf, n)
BE_write_u128(buf, n) == [i \in 1..Len(buf) |-> IF i <= 16 THEN WByte(n, 16 - i) ELSE buf[i]]

\* BigEndian::read_u128(buf)
BE_read_u128(buf) ==
  [i \in 1..8 |-> buf[16 - 2 * (i - 1)] + 256 * buf[16 - 2 * (i - 1) - 1]]

(***************************************************************************)
(* lib.rs: the Ulid.                                                       *)
(***************************************************************************)
\* [0; 16]
ZeroBytes == [i \in 1..16 |-> 0]

from_bytes(bytes) == bytes

\* from_slice refusing only the slices that are too short
from_slice_short(slice) ==
  LET len == Len(slice)
  IN  IF len < 16
      THEN Err(BytesError_new(16, len))
      ELSE Ok(from_bytes([i \in 1..16 |-> slice[i]]))

from_slice(slice) ==
  LET len == Len(slice)
  IN  IF len # 16
      THEN Err(BytesError_new(16, len))
      ELSE Ok(from_bytes([i \in 1..16 |-> slice[i]]))

from_millis_bytes(millis, bytes) ==
  LET buf == BE_write_i48(ZeroBytes, millis)
  IN  from_bytes([i \in 1..16 |-> IF i >= 7 THEN bytes[i - 6] ELSE buf[i]])

\* from_fields with the second byte of f1 taken by the shift of the third
from_fields_slip(f1, f2, f3, f4, f5) ==
  from_bytes(<< WAsU8(WShr(f1, 24)), WAsU8(WShr(f1, 8)),
                WAsU8(WShr(f1, 8)), WAsU8(f1),
                WAsU8(WShr(f2, 8)), WAsU8(f2),
                WAsU8(WShr(f3, 8)), WAsU8(f3),
                WAsU8(WShr(f4, 24)), WAsU8(WShr(f4, 16)),
                WAsU8(WShr(f4, 8)), WAsU8(f4),
                WAsU8(WShr(f5, 24)), WAsU8(WShr(f5, 16)),
                WAsU8(WShr(f5, 8)), WAsU8(f5) >>)

from_fields(f1, f2, f3, f4, f5) ==
  from_bytes(<< WAsU8(WShr(f1, 24)), WAsU8(WShr(f1, 16)),
                WAsU8(WShr(f1, 8)), WAsU8(f1),
                WAsU8(WShr(f2, 8)), WAsU8(f2),
                WAsU8(WShr(f3, 8)), WAsU8(f3),
                WAsU8(WShr(f4, 24)), WAsU8(WShr(f4, 16)),
                WAsU8(WShr(f4, 8)), WAsU8(f4),
                WAsU8(WShr(f5, 24)), WAsU8(WShr(f5, 16)),
                WAsU8(WShr(f5, 8)), WAsU8(f5) >>)

\* u32::from(b0) << 24 | u32::from(b1) << 16 | u32::from(b2) << 8 | u32::from(b3)
U32OfBytes(b0, b1, b2, b3) ==
  WOr(WOr(WOr(WShl(WFromU8(b0, 2), 24), WShl(WFromU8(b1, 2), 16)),
          WShl(WFromU8(b2, 2), 8)),
      WFromU8(b3, 2))

\* u16::from(b0) << 8 | u16::from(b1)
U16OfBytes(b0, b1) == WOr(WShl(WFromU8(b0, 1), 8), WFromU8(b1, 1))

as_fields(self) ==
  << U32OfBytes(self[1], self[2], self[3], self[4]),
     U16OfBytes(self[5], self[6]),
     U16OfBytes(self[7], self[8]),
     U32OfBytes(self[9], self[10], self[11], self[12]),
     U32OfBytes(self[13], self[14], self[15], self[16]) >>

as_millis(self) == BE_read_i48(self)

\* impl From<u128> for Ulid
from_u128(int) == from_bytes(BE_write_u128(ZeroBytes, int))

\* impl From<Ulid> for u128
as_u128(self) == BE_read_u128(self)

\* parse_str decoding before it checks the length
parse_str_late(input) ==
  LET bytes == decode(input)
  IN  IF IsErr(bytes) THEN bytes
      ELSE IF Len(input) # 26 THEN Err(InvalidLength(Len(input)))
      ELSE LET u == from_slice(bytes.val)
           IN  IF IsOk(u) THEN Ok(u.val) ELSE Panic

parse_str(input) ==
  IF Len(input) # 26
  THEN Err(InvalidLength(Len(input)))
  ELSE LET bytes == decode(input)
       IN  IF IsErr(bytes) THEN bytes
           ELSE LET u == from_slice(bytes.val)
                IN  IF IsOk(u) THEN Ok(u.val) ELSE Panic

\* #[derive(Ord)] on Ulid([u8; 16]): the arrays compared lexicographically
cmp(a, b) ==
  LET d == {i \in 1..16 : a[i] # b[i]}
  IN  IF d = {} THEN "Equal"
      ELSE IF a[Least(d)] < b[Least(d)] THEN "Less" ELSE "Greater"

(***************************************************************************)
(* The inputs the operations are applied to.                               *)
(***************************************************************************)
\* Seeds 0..MaxSeed of the generated buffers and words
MaxSeed == 3

\* Slices of 0..MaxSliceLen bytes
MaxSliceLen == 18

\* Texts of 0..MaxTextLen bytes
MaxTextLen == 28

\* Padded texts of 0..MaxSymbols symbols followed by 0..MaxPad '=' bytes
MaxSymbols == 10

MaxPad == 7

\* test.rs: TEST_BYTES
TEST_BYTES == <<1, 103, 245, 214, 154, 12, 107, 200, 228, 194, 102, 58, 236, 82, 247, 87>>

\* test.rs: TEST_BASE32 = "05kzbnmt1hnwhs62crxermqqaw"
TEST_BASE32 ==
  <<48, 53, 107, 122, 98, 110, 109, 116, 49, 104, 110, 119, 104,
    115, 54, 50, 99, 114, 120, 101, 114, 109, 113, 113, 97, 119>>

\* "7ZZZZZZZZZZZZZZZZZZZZZZZZZ", the greatest text of 128 bits
TOP_BASE32 == [i \in 1..26 |-> IF i = 1 THEN 55 ELSE 90]

\* [0xFF; 16]
OneBytes == [i \in 1..16 |-> 255]

\* A generated byte and a generated 16-bit limb
GenByte(seed, i) == (seed * 83 + i * 157 + seed * i * 29 + 11) % 256

GenLimb(seed, i) == (seed * 12289 + i * 40503 + seed * i * 811 + 7) % 65536

GenBytes(seed, n) == [i \in 1..n |-> GenByte(seed, i)]

GenWord(seed, n) == [i \in 1..n |-> GenLimb(seed, i)]

\* The buffers with one bit set, and those with one bit clear
OneBitBytes == {[ZeroBytes EXCEPT ![i] = TwoTo(k)] : i \in 1..16, k \in 0..7}

OneBitClearBytes == {[OneBytes EXCEPT ![i] = 255 - TwoTo(k)] : i \in 1..16, k \in 0..7}

SampleBytes ==
  {TEST_BYTES, ZeroBytes, OneBytes} \cup OneBitBytes \cup OneBitClearBytes
    \cup {GenBytes(s, 16) : s \in 0..MaxSeed}

SampleSlices ==
  {<<1, 2, 3, 4>>, TEST_BYTES}
    \cup {GenBytes(s, n) : s \in 0..1, n \in 0..MaxSliceLen}

\* The words of n limbs with one bit set
OneBitWords(n) == {[WZero(n) EXCEPT ![i] = TwoTo(k)] : i \in 1..n, k \in 0..15}

SampleU128 ==
  {WZero(8), [i \in 1..8 |-> 65535],
   <<3856, 3342, 2828, 2314, 1800, 1286, 772, 258>>}
    \cup OneBitWords(8) \cup {GenWord(s, 8) : s \in 0..MaxSeed}

\* A (u32, u16, u16, u32, u32) made of the limbs of a u128
FieldsOf(w) == << <<w[1], w[2]>>, <<w[3]>>, <<w[4]>>, <<w[5], w[6]>>, <<w[7], w[8]>> >>

\* test.rs: TEST_FIELD_1 .. TEST_FIELD_5, each hi * 65536 + lo
TEST_FIELDS ==
  << <<62934, 359>>, <<39436>>, <<27592>>, <<26170, 58562>>, <<63319, 60498>> >>

SampleFields == {TEST_FIELDS} \cup {FieldsOf(w) : w \in SampleU128}

\* test.rs: TEST_MILLIS = 1546017741324 = 0x0167_F5D6_9A0C
TEST_MILLIS == <<39436, 62934, 359, 0>>

\* i64 values at the edges of 48 and of 64 bits:
\* 0, 1, -1, 2^47 - 1, 2^47, 2^48 - 1, 2^48, -2^47, -2^47 - 1, MAX, MIN
EdgeI64 ==
  { <<0, 0, 0, 0>>, <<1, 0, 0, 0>>, ONES64,
    <<65535, 65535, 32767, 0>>, <<0, 0, 32768, 0>>,
    <<65535, 65535, 65535, 0>>, <<0, 0, 0, 1>>,
    <<0, 0, 32768, 65535>>, <<65535, 65535, 32767, 65535>>,
    <<65535, 65535, 65535, 32767>>, <<0, 0, 0, 32768>> }

SampleI64 ==
  {TEST_MILLIS} \cup EdgeI64
    \cup {GenWord(s, 4) : s \in 0..MaxSeed}
    \cup {[GenWord(s, 4) EXCEPT ![4] = 0] : s \in 0..MaxSeed}

SampleRandom == {[i \in 1..10 |-> 0], [i \in 1..10 |-> 255], GenBytes(1, 10)}

SampleMillis == {[millis |-> m, random |-> r] : m \in SampleI64, r \in SampleRandom}

\* The buffers a buffer is compared with: itself, the fixed ones, and the
\* ones that differ from it in one byte, at the ends and on both sides of
\* the 5-byte groups of the encoder
Neighbours(u) ==
  {u, TEST_BYTES, ZeroBytes, OneBytes}
    \cup {[u EXCEPT ![i] = v] : i \in {1, 5, 6, 10, 11, 15, 16},
                                v \in {0, 1, 3, 4, 8, 31, 32, 127, 128, 255}}

\* Bytes put into a text: U u = - space [ { @ / : a non-ASCII lead byte, 0xFF,
\* and the accepted I l O o 0 Z z
SampleChars ==
  {85, 117, 61, 45, 32, 91, 123, 64, 47, 58, 195, 255, 73, 108, 79, 111, 48, 90, 122}

\* t with its i-th byte replaced by c, then cut or extended (by repeating t) to n bytes
Variant(t, i, c, n) ==
  [j \in 1..n |-> IF j = i THEN c ELSE t[((j - 1) % Len(t)) + 1]]

\* The texts of 26 bytes: each byte of a valid text replaced by each sample
Texts26 ==
  {Variant(t, i, c, 26) : t \in {TEST_BASE32, TOP_BASE32}, i \in 1..26,
                          c \in SampleChars}

\* The texts of every length, valid or with a rejected byte (U, a non-ASCII
\* byte) in the first chunk, at a chunk boundary or at the end
TextsOfLen ==
  {Variant(t, i, c, n) : t \in {TEST_BASE32, TOP_BASE32},
                         i \in {1, 8, 9, 25, 26, 27},
                         c \in {85, 195, 48}, n \in 0..MaxTextLen}

\* The texts of 26 bytes with every byte value in turn in the second chunk
TextsAnyByte == {Variant(TEST_BASE32, 10, c, 26) : c \in 0..255}

\* The first n bytes of t followed by k '=' bytes
Padded(t, n, k) == [j \in 1..(n + k) |-> IF j <= n THEN t[j] ELSE 61]

\* The texts of 26 bytes that end in '=' bytes
TextsPadded26 ==
  {Padded(t, 26 - k, k) : t \in {TEST_BASE32, TOP_BASE32}, k \in 1..MaxPad}

SampleTexts ==
  {TEST_BASE32, TOP_BASE32} \cup Texts26 \cup TextsAnyByte \cup TextsOfLen
    \cup TextsPadded26

\* The padded texts given to the decoder alone
SamplePadded ==
  {Padded(t, n, k) : t \in {TEST_BASE32, TOP_BASE32}, n \in 0..MaxSymbols,
                     k \in 0..MaxPad}

(***************************************************************************)
(* The state: one input, drawn at the start, and the calls made on it.     *)
(***************************************************************************)
VARIABLES
  input,   \* the input drawn: [kind, val]
  op,      \* the last operation called, "new" before the first
  arg,     \* its argument
  output,  \* what it returned
  ulid     \* the first Ulid built from the input, NoUlid before

vars == <<input, op, arg, output, ulid>>

NoUlid == <<>>

Constructors ==
  {"from_bytes", "from_slice", "from_millis_bytes", "from_fields", "from_u128", "parse_str"}

Init ==
  /\ op = "new"
  /\ arg = <<>>
  /\ output = <<>>
  /\ ulid = NoUlid
  /\ \/ \E b \in SampleBytes : input = [kind |-> "bytes", val |-> b]
     \/ \E b \in SampleSlices : input = [kind |-> "slice", val |-> b]
     \/ \E m \in SampleMillis : input = [kind |-> "millis", val |-> m]
     \/ \E f \in SampleFields : input = [kind |-> "fields", val |-> f]
     \/ \E u \in SampleU128 : input = [kind |-> "u128", val |-> u]
     \/ \E t \in SampleTexts : input = [kind |-> "text", val |-> t]
     \/ \E t \in SamplePadded : input = [kind |-> "padded", val |-> t]

\* The call of constructor `name` on `a` returned Result `r`
Built(name, a, r) ==
  /\ op' = name
  /\ arg' = a
  /\ output' = r
  /\ ulid' = IF ulid = NoUlid /\ IsOk(r) THEN r.val ELSE ulid
  /\ UNCHANGED input

\* The call of accessor `name` on the Ulid held, with `a`, returned `r`
Read(name, a, r) ==
  /\ op' = name
  /\ arg' = a
  /\ output' = r
  /\ UNCHANGED <<input, ulid>>

FromBytes ==
  /\ op = "new" /\ input.kind = "bytes"
  /\ Built("from_bytes", input.val, Ok(from_bytes(input.val)))

FromSlice ==
  /\ op = "new" /\ input.kind = "slice"
  /\ Built("from_slice", input.val, from_slice(input.val))

FromMillisBytes ==
  /\ op = "new" /\ input.kind = "millis"
  /\ Built("from_millis_bytes", input.val,
           Ok(from_millis_bytes(input.val.millis, input.val.random)))

\* from_fields, on the input or on what as_fields returned
FromFields ==
  \E f \in (IF op = "new" /\ input.kind = "fields" THEN {input.val} ELSE {})
             \cup (IF op = "as_fields" THEN {output} ELSE {}) :
    Built("from_fields", f, Ok(from_fields(f[1], f[2], f[3], f[4], f[5])))

\* from_u128, on the input or on what as_u128 returned
FromU128 ==
  \E u \in (IF op = "new" /\ input.kind = "u128" THEN {input.val} ELSE {})
             \cup (IF op = "as_u128" THEN {output} ELSE {}) :
    Built("from_u128", u, Ok(from_u128(u)))

\* parse_str, on the input or on what the encoder returned
ParseStr ==
  \E t \in (IF op = "new" /\ input.kind = "text" THEN {input.val} ELSE {})
             \cup (IF op = "encode" THEN {output} ELSE {}) :
    Built("parse_str", t, parse_str(t))

AsFields ==
  /\ op \in Constructors /\ ulid # NoUlid
  /\ Read("as_fields", ulid, as_fields(ulid))

AsMillis ==
  /\ op \in Constructors /\ ulid # NoUlid
  /\ Read("as_millis", ulid, as_millis(ulid))

AsU128 ==
  /\ op \in Constructors /\ ulid # NoUlid
  /\ Read("as_u128", ulid, as_u128(ulid))

\* to_uppercase().to_string() and to_lowercase().to_string()
Encode ==
  /\ op \in Constructors /\ ulid # NoUlid
  /\ \E casing \in {"Upper", "Lower"} :
       Read("encode", casing, encode(casing, ulid))

\* Ord::cmp of the Ulid just built by from_millis_bytes with another one
\* built by from_millis_bytes, and of the Ulid just built by from_bytes with
\* another one built by from_bytes
Cmp ==
  /\ ulid # NoUlid
  /\ \/ /\ op = "from_millis_bytes"
        /\ \E m \in SampleMillis :
             Read("cmp", m, cmp(ulid, from_millis_bytes(m.millis, m.random)))
     \/ /\ op = "from_bytes"
        /\ \E b \in Neighbours(ulid) :
             Read("cmp", b, cmp(ulid, from_bytes(b)))

\* parser::decode called on a text of any length
Decode ==
  /\ op = "new" /\ input.kind = "padded"
  /\ Read("decode", input.val, decode(input.val))

Next ==
  \/ FromBytes
  \/ FromSlice
  \/ FromMillisBytes
  \/ FromFields
  \/ FromU128
  \/ ParseStr
  \/ AsFields
  \/ AsMillis
  \/ AsU128
  \/ Encode
  \/ Cmp
  \/ Decode

Spec == Init /\ [][Next]_vars

(***************************************************************************)
(* What the claims are stated with.                                        *)
(***************************************************************************)
\* The digits of 256 * d + b in base 10^6, d being three such digits
Times256Plus(d, b) ==
  LET lo == d[3] * 256 + b
      mid == d[2] * 256 + lo \div 1000000
      hi == d[1] * 256 + mid \div 1000000
  IN  <<hi, mid % 1000000, lo % 1000000>>

\* The bytes of w from the one of weight 2^(8*j) down, added to the digits d
RECURSIVE DecimalFrom(_, _, _)
DecimalFrom(w, j, d) ==
  IF j < 0 THEN d ELSE DecimalFrom(w, j - 1, Times256Plus(d, WByte(w, j)))

\* The value of a word below 10^18 as three digits in base 10^6, so that
\* 1546017741324 is <<1, 546017, 741324>>
Decimal(w) == DecimalFrom(w, 2 * Len(w) - 1, <<0, 0, 0>>)

\* a < b as i64
I64Less(a, b) ==
  LET key(w) == [w EXCEPT ![4] = (w[4] + 32768) % 65536]
      d == {i \in 1..4 : a[i] # b[i]}
      top == CHOOSE i \in d : \A j \in d : j <= i
  IN  d # {} /\ key(a)[top] < key(b)[top]

\* -2^47 <= m < 2^47
InI48(m) ==
  \/ m[4] = 0 /\ m[3] < 32768
  \/ m[4] = 65535 /\ m[3] >= 32768

\* The bytes the decoder accepts, as the Crockford table with its aliases
\* lists them: the digits, and the letters of either case but U
Accepted(c) ==
  c \in (48..57) \cup ((65..90) \ {85}) \cup ((97..122) \ {117})

\* The 16-bit number of two bytes, the first the more significant
BE16(hi, lo) == hi * 256 + lo

(***************************************************************************)
(* The claims.                                                             *)
(***************************************************************************)
\* C1: parsing the text the encoder made of a Ulid, in either alphabet,
\* succeeds and returns that Ulid.
C1_RoundTrip ==
  op = "parse_str" /\ ulid # NoUlid =>
    \A casing \in {"Upper", "Lower"} :
      arg = encode(casing, ulid) => output = Ok(ulid)

C1_Witness ==
  /\ op = "parse_str"
  /\ input.kind = "bytes"
  /\ ulid \in OneBitClearBytes
  /\ arg = encode("Upper", ulid)
  /\ output = Ok(ulid)

\* C2: TEST_BYTES encode in lowercase to "05kzbnmt1hnwhs62crxermqqaw", that
\* text parses to TEST_BYTES, as_millis of the value is 1546017741324 and
\* as_fields of it is (23590358, 39436, 27592, 3837945402, 3964860247).
C2_FixedVector ==
  /\ op = "encode" /\ ulid = TEST_BYTES /\ arg = "Lower" => output = TEST_BASE32
  /\ op = "parse_str" /\ arg = TEST_BASE32 => output = Ok(TEST_BYTES)
  /\ op = "as_millis" /\ ulid = TEST_BYTES =>
       Decimal(output) = <<1, 546017, 741324>>
  /\ op = "as_fields" /\ ulid = TEST_BYTES =>
       /\ Decimal(output[1]) = <<0, 23, 590358>>
       /\ Decimal(output[2]) = <<0, 0, 39436>>
       /\ Decimal(output[3]) = <<0, 0, 27592>>
       /\ Decimal(output[4]) = <<0, 3837, 945402>>
       /\ Decimal(output[5]) = <<0, 3964, 860247>>

C2_Witness ==
  /\ input.kind = "text"
  /\ input.val = TEST_BASE32
  /\ ulid = TEST_BYTES
  /\ op = "encode" /\ arg = "Lower"
  /\ output = TEST_BASE32

\* C3: from_slice fails, with BytesError{expected: 16, found: the length},
\* exactly when the slice is not 16 bytes long, and otherwise returns the
\* Ulid of the same 16 bytes.
C3_FromSlice ==
  op = "from_slice" =>
    /\ IsErr(output) <=> Len(arg) # 16
    /\ Len(arg) # 16 => output = Err([expected |-> 16, found |-> Len(arg)])
    /\ Len(arg) = 16 =>
         /\ IsOk(output)
         /\ Len(output.val) = 16
         /\ \A i \in 1..16 : output.val[i] = arg[i]

C3_Witness ==
  /\ op = "from_slice"
  /\ Len(arg) = 17
  /\ output = Err([expected |-> 16, found |-> 17])

\* C4: parse_str of a text that is not 26 bytes long fails with
\* InvalidLength{found: its length}, whatever its bytes are.
C4_InvalidLength ==
  op = "parse_str" /\ Len(arg) # 26 =>
    output = Err([type |-> "InvalidLength", found |-> Len(arg)])

C4_Witness ==
  /\ op = "parse_str"
  /\ Len(arg) = 27
  /\ \E i \in 1..27 : ~Accepted(arg[i])
  /\ output = Err([type |-> "InvalidLength", found |-> 27])

C6_Fields ==
  /\ op = "as_fields" /\ input.kind = "fields" => output = input.val
  /\ op = "from_fields" /\ ulid # NoUlid /\ arg = as_fields(ulid) =>
       output = Ok(ulid)
  /\ op = "from_fields" =>
       /\ IsOk(output)
       /\ LET u == output.val
          IN  /\ Len(u) = 16
              /\ arg[1] = <<BE16(u[3], u[4]), BE16(u[1], u[2])>>
              /\ arg[2] = <<BE16(u[5], u[6])>>
              /\ arg[3] = <<BE16(u[7], u[8])>>
              /\ arg[4] = <<BE16(u[11], u[12]), BE16(u[9], u[10])>>
              /\ arg[5] = <<BE16(u[15], u[16]), BE16(u[13], u[14])>>

C6_Witness ==
  /\ op = "from_fields"
  /\ input.kind = "bytes"
  /\ ulid = TEST_BYTES
  /\ arg = TEST_FIELDS
  /\ output = Ok(TEST_BYTES)

\* C7 as stated: a Ulid built from the timestamp tA is below one built from tB
\* whenever tA < tB as i64, whatever the random parts.
C7_AnyI64 ==
  op = "cmp" /\ input.kind = "millis" /\ I64Less(input.val.millis, arg.millis) =>
    output = "Less"

\* C7 amended: a Ulid built from the timestamp tA is below one built from tB
\* whenever tA < tB and the two agree on their 16 high bits, as all
\* timestamps in 0 .. 2^48 - 1 do, whatever the random parts.
C7_Within48 ==
  op = "cmp" /\ input.kind = "millis" /\ I64Less(input.val.millis, arg.millis)
             /\ input.val.millis[4] = arg.millis[4] => output = "Less"

C7_Witness ==
  /\ op = "cmp"
  /\ input.kind = "millis"
  /\ input.val.millis = TEST_MILLIS
  /\ input.val.random = [i \in 1..10 |-> 255]
  /\ arg.millis = <<65535, 65535, 65535, 0>>
  /\ arg.random = [i \in 1..10 |-> 0]
  /\ output = "Less"

\* C8: from_millis_bytes(millis, random) returns a Ulid whose bytes 0..5 are
\* millis mod 2^48, big-endian, and whose bytes 6..15 are random, in order.
C8_FromMillisBytes ==
  op = "from_millis_bytes" =>
    /\ IsOk(output)
    /\ LET u == output.val
       IN  /\ Len(u) = 16
           /\ BE16(u[1], u[2]) = arg.millis[3]
           /\ BE16(u[3], u[4]) = arg.millis[2]
           /\ BE16(u[5], u[6]) = arg.millis[1]
           /\ \A i \in 1..10 : u[6 + i] = arg.random[i]

C8_Witness ==
  /\ op = "from_millis_bytes"
  /\ arg.millis = <<65535, 65535, 32767, 65535>>
  /\ arg.random = GenBytes(1, 10)
  /\ output.val[1] = 127

\* C9: as_millis is bytes 0..5 read big-endian as a 48-bit two's complement
\* number: of from_millis_bytes(m, r) it is m when -2^47 <= m < 2^47, and in
\* any case the low 48 bits of m sign-extended; it is negative exactly when
\* the top bit of byte 0 is set.
C9_AsMillis ==
  op = "as_millis" =>
    /\ output[1] = BE16(ulid[5], ulid[6])
    /\ output[2] = BE16(ulid[3], ulid[4])
    /\ output[3] = BE16(ulid[1], ulid[2])
    /\ output[4] = IF ulid[1] >= 128 THEN 65535 ELSE 0
    /\ input.kind = "millis" =>
         LET m == input.val.millis
         IN  /\ InI48(m) => output = m
             /\ output = <<m[1], m[2], m[3], IF m[3] >= 32768 THEN 65535 ELSE 0>>

C9_Witness ==
  /\ op = "as_millis"
  /\ input.kind = "millis"
  /\ input.val.millis = <<0, 0, 32768, 0>>
  /\ output = <<0, 0, 32768, 65535>>

\* C10: as_u128 of from_u128(U) is U, from_u128 of as_u128(u) is u, and the
\* bytes of from_u128(U) are U big-endian, byte 0 the most significant.
C10_U128 ==
  /\ op = "as_u128" /\ input.kind = "u128" => output = input.val
  /\ op = "from_u128" /\ ulid # NoUlid /\ arg = as_u128(ulid) =>
       output = Ok(ulid)
  /\ op = "from_u128" =>
       /\ IsOk(output)
       /\ Len(output.val) = 16
       /\ \A k \in 1..8 :
            BE16(output.val[2 * k - 1], output.val[2 * k]) = arg[9 - k]

C10_Witness ==
  /\ op = "from_u128"
  /\ input.kind = "bytes"
  /\ ulid = TEST_BYTES
  /\ arg = <<63319, 60498, 26170, 58562, 27592, 39436, 62934, 359>>
  /\ output = Ok(TEST_BYTES)

\* The 32 symbols of the uppercase and of the lowercase alphabet: the digits
\* and the letters but I, L, O, U
UpperSymbols == (48..57) \cup ((65..90) \ {73, 76, 79, 85})

LowerSymbols == (48..57) \cup ((97..122) \ {105, 108, 111, 117})

\* C11: the encoder returns 26 symbols of the alphabet chosen: the four
\* groups give 32 symbols, of which the last 6 are dropped.
C11_Length ==
  op = "encode" =>
    /\ Len(output) = 26
    /\ \A i \in 1..26 :
         output[i] \in (IF arg = "Upper" THEN UpperSymbols ELSE LowerSymbols)
    /\ Len(EncodeLoop(Alphabet(arg), ulid, 0, <<>>)) = 3 * 8 + 8
    /\ NumExtra(Len(ulid)) = 8 - ((1 * 8 + 4) \div 5)
    /\ NumExtra(Len(ulid)) = 6

C11_Witness ==
  /\ op = "encode"
  /\ arg = "Upper"
  /\ ulid = OneBytes
  /\ Len(output) = 26
  /\ output[1] = 90
  /\ output[26] = 87

\* str::to_uppercase on an ASCII text
AsciiUpper(t) == [i \in 1..Len(t) |-> IF t[i] \in 97..122 THEN t[i] - 32 ELSE t[i]]

\* C12: the uppercase and the lowercase encoding of a Ulid have one length,
\* hold the same digits at the same places and, at every other place, the
\* same letter in the two cases.
C12_CaseOnly ==
  op = "encode" =>
    LET up == IF arg = "Upper" THEN output ELSE encode("Upper", ulid)
        lo == IF arg = "Lower" THEN output ELSE encode("Lower", ulid)
    IN  /\ Len(up) = Len(lo)
        /\ \A i \in 1..Len(lo) :
             \/ lo[i] \in 48..57 /\ up[i] = lo[i]
             \/ lo[i] \in 97..122 /\ up[i] \in 65..90 /\ up[i] = lo[i] - 32
        /\ up = AsciiUpper(lo)

C12_Witness ==
  /\ op = "encode"
  /\ arg = "Upper"
  /\ ulid = TEST_BYTES
  /\ output = AsciiUpper(TEST_BASE32)
  /\ encode("Lower", ulid) = TEST_BASE32

\* str::to_lowercase on an ASCII text
AsciiLower(t) == [i \in 1..Len(t) |-> IF t[i] \in 65..90 THEN t[i] + 32 ELSE t[i]]

\* An ASCII letter in the other case, any other byte unchanged
FlipCase(c) ==
  IF c \in 65..90 THEN c + 32 ELSE IF c \in 97..122 THEN c - 32 ELSE c

\* I, i, L, l written 1 and O, o written 0, any other byte unchanged
Unalias(c) ==
  IF c \in {73, 105, 76, 108} THEN 49 ELSE IF c \in {79, 111} THEN 48 ELSE c

\* C13 as stated: parse_str of a 26-byte text returns the same, whichever
\* letter has its case changed and whichever alias is written as its digit.
C13_AnyCase ==
  op = "parse_str" /\ Len(arg) = 26 =>
    \A i \in 1..26 :
      /\ parse_str([arg EXCEPT ![i] = FlipCase(arg[i])]) = output
      /\ parse_str([arg EXCEPT ![i] = Unalias(arg[i])]) = output

\* C13: writing an alias as its digit never changes what parse_str returns
\* for a 26-byte text.  Changing the case of a letter does not change it
\* either, except that when the letter is the first rejected byte (a U or
\* a u) the error keeps its kind and index and reports the letter as it is
\* written.  A text that parses gives the same Ulid in all-uppercase and in
\* all-lowercase.
C13_CaseAlias ==
  op = "parse_str" /\ Len(arg) = 26 /\ output # Panic =>
    /\ \A i \in {j \in 1..26 : FlipCase(arg[j]) # arg[j]} :
         LET flipped == parse_str([arg EXCEPT ![i] = FlipCase(arg[i])])
             plain == parse_str([arg EXCEPT ![i] = Unalias(arg[i])])
             bad == {j \in 1..26 : ~Accepted(arg[j])}
         IN  /\ plain = output
             /\ IF bad # {} /\ Least(bad) = i /\ arg[i] \in {85, 117}
                THEN /\ output = Err(InvalidCharacter(arg[i], (i - 1) % 8))
                     /\ flipped = Err(InvalidCharacter(FlipCase(arg[i]), (i - 1) % 8))
                ELSE flipped = output
    /\ IsOk(output) =>
         /\ parse_str(AsciiUpper(arg)) = output
         /\ parse_str(AsciiLower(arg)) = output

C13_Witness ==
  /\ op = "parse_str"
  /\ Len(arg) = 26
  /\ arg[3] = 107
  /\ arg[26] = 85
  /\ \A i \in 1..25 : Accepted(arg[i])
  /\ output = Err(InvalidCharacter(85, 1))
  /\ parse_str([arg EXCEPT ![3] = 75]) = output
  /\ parse_str([arg EXCEPT ![26] = 117]) = Err(InvalidCharacter(117, 1))

\* The number of '=' bytes t ends with
RECURSIVE TrailingPads(_)
TrailingPads(t) ==
  IF t # <<>> /\ t[Len(t)] = 61
  THEN 1 + TrailingPads(SubSeq(t, 1, Len(t) - 1))
  ELSE 0

\* C14: decode of n Crockford symbols followed by k '=' bytes, 1 <= k <= 6,
\* succeeds and returns floor(5n/8) bytes.
C14_Padding ==
  op = "decode" =>
    LET k == TrailingPads(arg)
        n == Len(arg) - k
    IN  k \in 1..6 /\ (\A i \in 1..n : arg[i] \in UpperSymbols \cup LowerSymbols) =>
          /\ IsOk(output)
          /\ Len(output.val) = (5 * n) \div 8

\* What decode returns instead: the first '=' is rejected as a character,
\* at its index within its group of 8; without '=' the n symbols give
\* floor(5n/8) bytes.
C14_Rejected ==
  op = "decode" =>
    LET k == TrailingPads(arg)
        n == Len(arg) - k
    IN  (\A i \in 1..n : arg[i] \in UpperSymbols \cup LowerSymbols) =>
          IF k = 0
          THEN IsOk(output) /\ Len(output.val) = (5 * n) \div 8
          ELSE output = Err(InvalidCharacter(61, n % 8))

\* C15: parse_str never panics: decode of a 26-byte text, whatever its
\* bytes, is an error or exactly 16 bytes, which from_slice accepts.
C15_NoPanic ==
  op = "parse_str" =>
    /\ output # Panic
    /\ Len(arg) = 26 =>
         LET bytes == decode(arg)
         IN  \/ IsErr(bytes) /\ output = bytes
             \/ /\ IsOk(bytes)
                /\ Len(bytes.val) = 16
                /\ IsOk(from_slice(bytes.val))
                /\ output = Ok(bytes.val)

C15_Witness ==
  /\ op = "parse_str"
  /\ Len(arg) = 26
  /\ TrailingPads(arg) = 6
  /\ \A i \in 1..20 : Accepted(arg[i])
  /\ UnpaddedLoop(arg, 1, 26) = 20
  /\ output = Err(InvalidCharacter(61, 4))

\* Ord::cmp of two ASCII texts: byte by byte, a proper prefix being less
StrCmp(s, t) ==
  LET d == {i \in 1..MinOf(Len(s), Len(t)) : s[i] # t[i]}
  IN  IF d # {} THEN (IF s[Least(d)] < t[Least(d)] THEN "Less" ELSE "Greater")
      ELSE IF Len(s) < Len(t) THEN "Less"
      ELSE IF Len(s) > Len(t) THEN "Greater"
      ELSE "Equal"

\* The Ulid the one held was compared with
Other ==
  IF input.kind = "millis" THEN from_millis_bytes(arg.millis, arg.random)
  ELSE from_bytes(arg)

\* C16: in either case, the encodings of two Ulids compare as texts the way
\* the Ulids compare: less, equal or greater.
C16_Order ==
  op = "cmp" =>
    \A casing \in {"Upper", "Lower"} :
      StrCmp(encode(casing, ulid), encode(casing, Other)) = output

C16_Witness ==
  /\ op = "cmp"
  /\ input.kind = "bytes"
  /\ ulid = TEST_BYTES
  /\ arg = [TEST_BYTES EXCEPT ![16] = 128]
  /\ output = "Less"
  /\ encode("Lower", ulid)[26] = 119
  /\ encode("Lower", Other)[26] = 48
  /\ StrCmp(encode("Lower", ulid), encode("Lower", Other)) = "Less"

\* The 5-bit value of an accepted byte: the place in the uppercase alphabet
\* of the byte in upper case, an alias read as its digit
Value(c) ==
  LET n == to_ascii_uppercase(Unalias(c))
  IN  CHOOSE v \in 0..31 : CROCKFORD[v + 1] = n

\* A text in upper case with every alias written as its digit
Normalise(t) == AsciiUpper([i \in 1..Len(t) |-> Unalias(t[i])])

\* C17: a text that parses gives the same Ulid with any 26th symbol that has
\* the same three high bits, so two different texts give one Ulid; the
\* encoder's 26th symbol has its two low bits zero; and the encoding of the
\* Ulid parsed is the text, normalised, exactly when the text's 26th symbol
\* has its two low bits zero.
C17_LowBits ==
  /\ op = "parse_str" /\ Len(arg) = 26 /\ IsOk(output) =>
       LET same == {c \in UpperSymbols \cup LowerSymbols :
                      Value(c) \div 4 = Value(arg[26]) \div 4}
       IN  /\ \A c \in same : parse_str([arg EXCEPT ![26] = c]) = output
           /\ \E c \in same : Value(c) # Value(arg[26])
           /\ Normalise(arg) = encode("Upper", output.val)
                <=> Value(arg[26]) % 4 = 0
  /\ op = "encode" => Value(output[26]) % 4 = 0

C17_Witness ==
  /\ op = "parse_str"
  /\ Len(arg) = 26
  /\ arg[26] = 122
  /\ \A i \in 1..25 : arg[i] = TEST_BASE32[i]
  /\ output = Ok(TEST_BYTES)
  /\ parse_str(TEST_BASE32) = output
  /\ encode("Lower", output.val) = TEST_BASE32

=============================================================================
